---- MODULE Spec2Model ----
(***************************************************************************)
(* Output and error reporting of the rover command line client.            *)
(*                                                                         *)
(* One invocation runs one command, which yields Ok(RoverOutput) or        *)
(* Err(RoverError).  The outcome is rendered either for a human            *)
(* (descriptor and status lines on stderr, body on stdout) or as a         *)
(* versioned JSON envelope, and the process exits.                         *)
(***************************************************************************)
EXTENDS Integers, Sequences, FiniteSets, TLC

(***************************************************************************)
(* Bounds of the model.                                                    *)
(***************************************************************************)
MaxBuildErrors == 2
MaxChanges == 2
MaxItems == 2

(***************************************************************************)
(* Rust Option<T>.                                                         *)
(***************************************************************************)
None == [none |-> TRUE]
Some(x) == [some |-> x]
IsSome(o) == "some" \in DOMAIN o
IsNone(o) == "none" \in DOMAIN o

(***************************************************************************)
(* serde_json::Value.  Scalars and arrays are tagged records; a JSON       *)
(* object is a record whose fields are the object's keys.                  *)
(***************************************************************************)
JNull == [null |-> TRUE]
JStr(s) == [str |-> s]
JBool(b) == [bool |-> b]
JNum(n) == [num |-> n]
JArr(s) == [arr |-> s]
JsonTags == {"null", "str", "bool", "num", "arr", "serde_error"}
IsObject(j) == DOMAIN j \cap JsonTags = {}
HasKey(j, k) == IsObject(j) /\ k \in DOMAIN j
\* json!(Option<String>): None serialises as null.
OptStrJson(o) == IF IsSome(o) THEN JStr(o.some) ELSE JNull

RECURSIVE SeqsUpTo(_, _)
SeqsUpTo(S, n) ==
    IF n = 0 THEN {<<>>}
    ELSE LET shorter == SeqsUpTo(S, n - 1)
         IN  shorter \cup {Append(s, x) : s \in {t \in shorter : Len(t) = n - 1}, x \in S}

(***************************************************************************)
(* Result<T, E>.                                                           *)
(***************************************************************************)
Ok(v) == [ok |-> v]
Err(e) == [err |-> e]
IsOk(r) == "ok" \in DOMAIN r
IsErr(r) == "err" \in DOMAIN r

(***************************************************************************)
(* Values the commands work on.  Strings are drawn from small fixed sets.  *)
(***************************************************************************)
TheGraphRef == [name |-> "name", variant |-> "current"]
TheSubgraph == "subgraph"
RootUrl == "https://studio.apollographql.com/"

\* apollo_federation_types::build::BuildError as BuildError::composition_error
\* builds it: an optional code, an optional message, and the composition type.
composition_error(code, message) ==
    [message |-> message, code |-> code, type |-> "composition"]
BuildErrorValues ==
    { composition_error(Some("AN_ERROR_CODE"), Some("[Accounts] -> Things went really wrong")),
      composition_error(None, Some("[Films] -> Something else also went wrong")) }
BuildErrorsDomain == SeqsUpTo(BuildErrorValues, MaxBuildErrors)
NonEmptyBuildErrors == {s \in BuildErrorsDomain : Len(s) > 0}

\* rover_client::shared::SchemaChange
SchemaChange(severity) ==
    [code |-> "SOMETHING_HAPPENED", description |-> "beeg yoshi", severity |-> severity]
ChangesDomain == SeqsUpTo({SchemaChange("PASS"), SchemaChange("FAIL")}, MaxChanges)
RECURSIVE CountFail(_)
CountFail(changes) ==
    IF changes = <<>> THEN 0
    ELSE (IF changes[1].severity = "FAIL" THEN 1 ELSE 0) + CountFail(Tail(changes))
\* The severity the registry reports for a whole check: FAIL as soon as one
\* change fails.
OverallSeverity(changes) == IF CountFail(changes) > 0 THEN "FAIL" ELSE "PASS"

\* rover_client::operations::subgraph::list::SubgraphInfo
SubgraphInfos ==
    [name : {"subgraph one"},
     url : {None, Some(""), Some("http://localhost:4001")},
     updated_at : {[local |-> None, utc |-> None],
                   [local |-> Some("2022-01-01T01:00:00+01:00"),
                    utc |-> Some("2022-01-01T00:00:00Z")]}]
SubgraphListResponses ==
    [subgraphs : SeqsUpTo(SubgraphInfos, MaxItems),
     root_url : {RootUrl}, graph_ref : {TheGraphRef}]

\* crate::options::GithubTemplate
GithubTemplates ==
    { [id |-> "t1", display |-> "Template One", language |-> "javascript", git_url |-> "https://github.com/t1"],
      [id |-> "t2", display |-> "Template Two", language |-> "python", git_url |-> "https://github.com/t2"] }
TemplateLists == SeqsUpTo(GithubTemplates, MaxItems)

Hints == {[message |-> "hint one"], [message |-> "hint two"]}
ProfileNames == {"default", "staging"}
\* BTreeMap<&str, &str>: iterated in key order, so a prefix of the sorted pairs.
AllShortlinks ==
    << [slug |-> "slug_one", description |-> "description_one"],
       [slug |-> "slug_two", description |-> "description_two"] >>
ShortlinkMaps == {SubSeq(AllShortlinks, 1, n) : n \in 1..Len(AllShortlinks)}

(***************************************************************************)
(* RoverClientError / RoverError.  An error is its kind plus the fields    *)
(* the kind carries; "Unclassified" is RoverError::new(anyhow!(message)).  *)
(***************************************************************************)
BuildErrorsErr(source, num_subgraphs) ==
    [kind |-> "BuildErrors", source |-> source, num_subgraphs |-> num_subgraphs]
SubgraphBuildErrorsErr(subgraph, graph_ref, source) ==
    [kind |-> "SubgraphBuildErrors", subgraph |-> subgraph, graph_ref |-> graph_ref,
     source |-> source]
NoSupergraphBuildsErr(graph_ref, source) ==
    [kind |-> "NoSupergraphBuilds", graph_ref |-> graph_ref, source |-> source]
NoSubgraphInGraphErr(invalid_subgraph, valid_subgraphs) ==
    [kind |-> "NoSubgraphInGraph", invalid_subgraph |-> invalid_subgraph,
     valid_subgraphs |-> valid_subgraphs]
OperationCheckFailureErr(graph_ref, check_response) ==
    [kind |-> "OperationCheckFailure", graph_ref |-> graph_ref,
     check_response |-> check_response]
\* RoverError::new(anyhow!(message))
AnyhowErr(message) == [kind |-> "Unclassified", message |-> message]

ClassifiedKinds ==
    {"BuildErrors", "SubgraphBuildErrors", "NoSupergraphBuilds", "NoSubgraphInGraph",
     "OperationCheckFailure"}

\* CheckResponse::try_new: counts the failing changes, and a check whose
\* result is FAIL is returned as an error carrying the whole response.
try_new(target_url, operation_check_count, changes, result, graph_ref, core_schema_modified) ==
    LET check_response ==
            [target_url |-> target_url,
             operation_check_count |-> operation_check_count,
             changes |-> changes,
             result |-> result,
             failure_count |-> CountFail(changes),
             core_schema_modified |-> core_schema_modified]
    IN  IF result = "FAIL"
        THEN Err(OperationCheckFailureErr(graph_ref, check_response))
        ELSE Ok(check_response)

CheckTargetUrl ==
    "https://studio.apollographql.com/graph/my-graph/composition/big-hash?variant=current"
\* Every outcome of a check command: try_new on what the registry reported.
CheckOutcomes ==
    { try_new(Some(CheckTargetUrl), 10, changes, OverallSeverity(changes), TheGraphRef, csm) :
        changes \in ChangesDomain, csm \in BOOLEAN }

UnclassifiedMessages == {"Some random error", "No template selected"}
RoverErrors ==
    {BuildErrorsErr(src, 2) : src \in NonEmptyBuildErrors}
    \cup {SubgraphBuildErrorsErr(TheSubgraph, TheGraphRef, src) : src \in NonEmptyBuildErrors}
    \cup {NoSupergraphBuildsErr(TheGraphRef, src) : src \in NonEmptyBuildErrors}
    \cup {NoSubgraphInGraphErr(sg, <<>>) : sg \in {"invalid_subgraph", "other_subgraph"}}
    \cup {r.err : r \in {c \in CheckOutcomes : IsErr(c)}}
    \cup {AnyhowErr(m) : m \in UnclassifiedMessages}

(***************************************************************************)
(* RoverOutput: one record per variant, tagged by "variant".               *)
(***************************************************************************)
LaunchCopy == "You can monitor this launch in Apollo Studio: test.com/launchurl"
SubgraphPublishResponses ==
    { [api_schema_hash |-> IF Len(be) = 0 THEN Some("123456") ELSE None,
       build_errors |-> be,
       supergraph_was_updated |-> up,
       subgraph_was_created |-> cr,
       launch_url |-> IF IsSome(lc) THEN Some("test.com/launchurl") ELSE None,
       launch_cli_copy |-> lc] :
        be \in BuildErrorsDomain, up \in BOOLEAN, cr \in BOOLEAN,
        lc \in {None, Some(LaunchCopy)} }
SubgraphDeleteResponses ==
    [supergraph_was_updated : BOOLEAN, build_errors : BuildErrorsDomain]
TheChangeSummary ==
    [field_changes |-> [additions |-> 2, removals |-> 1, edits |-> 0],
     type_changes |-> [additions |-> 4, removals |-> 0, edits |-> 7]]

\* The outputs of the commands whose handlers are not modelled step by step.
CommandOutputs ==
    { [variant |-> "ContractDescribe",
       describe_response |-> [description |-> "contract description", root_url |-> RootUrl,
                              graph_ref |-> TheGraphRef]] }
    \cup { [variant |-> "ContractPublish",
            publish_response |-> [config_description |-> "contract description",
                                  launch_cli_copy |-> lc]] : lc \in {None, Some(LaunchCopy)} }
    \cup { [variant |-> "DocsList", shortlinks |-> m] : m \in ShortlinkMaps }
    \cup { [variant |-> "FetchResponse",
            fetch_response |-> [sdl |-> [contents |-> "sdl contents", type |-> t]]] :
              t \in {"Graph", "Subgraph", "Supergraph"} }
    \cup { [variant |-> "SupergraphSchema", csdl |-> "core schema contents"] }
    \cup { [variant |-> "CompositionResult",
            composition_output |-> [supergraph_sdl |-> "core schema contents", hints |-> h,
                                    federation_version |-> fv]] :
              h \in SeqsUpTo(Hints, MaxItems), fv \in {None, Some("2.0.0")} }
    \cup { [variant |-> "CheckResponse", check_response |-> r.ok] :
              r \in {c \in CheckOutcomes : IsOk(c)} }
    \cup { [variant |-> "AsyncCheckResponse",
            check_response |-> [workflow_id |-> "wf-1", target_url |-> CheckTargetUrl]] }
    \cup { [variant |-> "GraphPublishResponse", graph_ref |-> TheGraphRef,
            publish_response |-> [api_schema_hash |-> "123456",
                                  change_summary |-> TheChangeSummary]] }
    \cup { [variant |-> "SubgraphPublishResponse", graph_ref |-> TheGraphRef,
            subgraph |-> TheSubgraph, publish_response |-> pr] :
              pr \in SubgraphPublishResponses }
    \cup { [variant |-> "SubgraphDeleteResponse", graph_ref |-> TheGraphRef,
            subgraph |-> TheSubgraph, dry_run |-> dr, delete_response |-> d] :
              dr \in BOOLEAN, d \in SubgraphDeleteResponses }
    \cup { [variant |-> "TemplateUseSuccess",
            template |-> CHOOSE t \in GithubTemplates : t.id = "t1",
            path |-> "./my-project"] }
    \cup { [variant |-> "Profiles", profiles |-> ps] : ps \in SeqsUpTo(ProfileNames, MaxItems) }
    \cup { [variant |-> "Introspection", introspection_response |-> "introspection result"] }
    \cup { [variant |-> "ErrorExplanation", explanation |-> "**E029** explanation"] }
    \cup { [variant |-> "ReadmeFetchResponse", graph_ref |-> TheGraphRef,
            content |-> "readme content", last_updated_time |-> lu] :
              lu \in {None, Some("2022-01-01")} }
    \cup { [variant |-> "ReadmePublishResponse", graph_ref |-> TheGraphRef,
            new_content |-> "readme content", last_updated_time |-> lu] :
              lu \in {None, Some("2022-01-01")} }
    \cup { [variant |-> "EmptySuccess"] }

(***************************************************************************)
(* Serialize implementations of the response types.                        *)
(***************************************************************************)
BuildErrorJson(e) ==
    [message |-> OptStrJson(e.message), code |-> OptStrJson(e.code), type |-> JStr(e.type)]
BuildErrorsJson(errs) == JArr([i \in 1..Len(errs) |-> BuildErrorJson(errs[i])])
SchemaChangeJson(c) ==
    [code |-> JStr(c.code), description |-> JStr(c.description), severity |-> JStr(c.severity)]
\* CheckResponse::get_json
CheckResponseJson(cr) ==
    [target_url |-> OptStrJson(cr.target_url),
     operation_check_count |-> JNum(cr.operation_check_count),
     changes |-> JArr([i \in 1..Len(cr.changes) |-> SchemaChangeJson(cr.changes[i])]),
     failure_count |-> JNum(cr.failure_count),
     core_schema_modified |-> JBool(cr.core_schema_modified)]
AsyncCheckResponseJson(cr) ==
    [workflow_id |-> JStr(cr.workflow_id), target_url |-> JStr(cr.target_url)]
ChangeCountsJson(c) ==
    [additions |-> JNum(c.additions), removals |-> JNum(c.removals), edits |-> JNum(c.edits)]
GraphPublishResponseJson(pr) ==
    [api_schema_hash |-> JStr(pr.api_schema_hash),
     field_changes |-> ChangeCountsJson(pr.change_summary.field_changes),
     type_changes |-> ChangeCountsJson(pr.change_summary.type_changes)]
SubgraphPublishResponseJson(pr) ==
    [api_schema_hash |-> OptStrJson(pr.api_schema_hash),
     supergraph_was_updated |-> JBool(pr.supergraph_was_updated),
     subgraph_was_created |-> JBool(pr.subgraph_was_created),
     launch_url |-> OptStrJson(pr.launch_url),
     launch_cli_copy |-> OptStrJson(pr.launch_cli_copy)]
SubgraphDeleteResponseJson(d) ==
    [supergraph_was_updated |-> JBool(d.supergraph_was_updated)]
SubgraphInfoJson(sg) ==
    [name |-> JStr(sg.name), url |-> OptStrJson(sg.url),
     updated_at |-> [local |-> OptStrJson(sg.updated_at.local),
                     utc |-> OptStrJson(sg.updated_at.utc)]]
SubgraphListResponseJson(l) == [subgraphs |-> JArr([i \in 1..Len(l.subgraphs) |-> SubgraphInfoJson(l.subgraphs[i])])]
FetchResponseJson(f) == [sdl |-> [contents |-> JStr(f.sdl.contents)]]
GraphRefJson(g) == [name |-> JStr(g.name), variant |-> JStr(g.variant)]
ContractDescribeResponseJson(d) ==
    [description |-> JStr(d.description), root_url |-> JStr(d.root_url),
     graph_ref |-> GraphRefJson(d.graph_ref)]
ContractPublishResponseJson(pr) ==
    [config_description |-> JStr(pr.config_description),
     launch_cli_copy |-> OptStrJson(pr.launch_cli_copy)]
GithubTemplateJson(t) ==
    [id |-> JStr(t.id), display |-> JStr(t.display), language |-> JStr(t.language),
     git_url |-> JStr(t.git_url)]
HintJson(h) == [message |-> JStr(h.message)]
ShortlinkJson(sl) == [slug |-> JStr(sl.slug), description |-> JStr(sl.description)]

(***************************************************************************)
(* RoverOutput::get_internal_data_json                                     *)
(***************************************************************************)
\* The match of get_internal_data_json, one arm per variant.
data_json_match(self) ==
    CASE self.variant = "ContractDescribe" ->
            ContractDescribeResponseJson(self.describe_response)
      [] self.variant = "ContractPublish" ->
            ContractPublishResponseJson(self.publish_response)
      [] self.variant = "DocsList" ->
            [shortlinks |-> JArr([i \in 1..Len(self.shortlinks) |-> ShortlinkJson(self.shortlinks[i])])]
      [] self.variant = "FetchResponse" -> FetchResponseJson(self.fetch_response)
      [] self.variant = "SupergraphSchema" -> [core_schema |-> JStr(self.csdl)]
      [] self.variant = "CompositionResult" ->
            IF IsSome(self.composition_output.federation_version)
            THEN [core_schema |-> JStr(self.composition_output.supergraph_sdl),
                  hints |-> JArr([i \in 1..Len(self.composition_output.hints) |-> HintJson(self.composition_output.hints[i])]),
                  federation_version |-> JStr(self.composition_output.federation_version.some)]
            ELSE [core_schema |-> JStr(self.composition_output.supergraph_sdl),
                  hints |-> JArr([i \in 1..Len(self.composition_output.hints) |-> HintJson(self.composition_output.hints[i])])]
      [] self.variant = "GraphPublishResponse" ->
            GraphPublishResponseJson(self.publish_response)
      [] self.variant = "SubgraphPublishResponse" ->
            SubgraphPublishResponseJson(self.publish_response)
      [] self.variant = "SubgraphDeleteResponse" ->
            SubgraphDeleteResponseJson(self.delete_response)
      [] self.variant = "SubgraphList" -> SubgraphListResponseJson(self.details)
      [] self.variant = "TemplateList" ->
            [templates |-> JArr([i \in 1..Len(self.templates) |-> GithubTemplateJson(self.templates[i])])]
      [] self.variant = "TemplateUseSuccess" ->
            [template_id |-> JStr(self.template.id), path |-> JStr(self.path)]
      [] self.variant = "CheckResponse" -> CheckResponseJson(self.check_response)
      [] self.variant = "AsyncCheckResponse" -> AsyncCheckResponseJson(self.check_response)
      [] self.variant = "Profiles" -> [profiles |-> JArr([i \in 1..Len(self.profiles) |-> JStr(self.profiles[i])])]
      [] self.variant = "Introspection" ->
            [introspection_response |-> JStr(self.introspection_response)]
      [] self.variant = "ErrorExplanation" ->
            [explanation_markdown |-> JStr(self.explanation)]
      [] self.variant = "ReadmeFetchResponse" ->
            [readme |-> JStr(self.content),
             last_updated_time |-> OptStrJson(self.last_updated_time)]
      [] self.variant = "ReadmePublishResponse" ->
            [readme |-> JStr(self.new_content),
             last_updated_time |-> OptStrJson(self.last_updated_time)]
      [] self.variant = "EmptySuccess" -> JNull

\* Mutant: the SupergraphSchema arm serialises the bare string.
get_internal_data_json_bare_schema(self) ==
    IF self.variant = "SupergraphSchema" THEN JStr(self.csdl) ELSE data_json_match(self)

\* Mutant: a missing federation_version is serialised as null.
get_internal_data_json_null_federation_version(self) ==
    IF self.variant = "CompositionResult"
    THEN [core_schema |-> JStr(self.composition_output.supergraph_sdl),
          hints |-> JArr([i \in 1..Len(self.composition_output.hints) |-> HintJson(self.composition_output.hints[i])]),
          federation_version |-> OptStrJson(self.composition_output.federation_version)]
    ELSE data_json_match(self)

\* Mutant: the CheckResponse arm serialises only the changes.
get_internal_data_json_changes_only(self) ==
    IF self.variant = "CheckResponse"
    THEN [changes |-> JArr([i \in 1..Len(self.check_response.changes) |-> SchemaChangeJson(self.check_response.changes[i])])]
    ELSE data_json_match(self)

get_internal_data_json(self) == data_json_match(self)

(***************************************************************************)
(* RoverError: its Display message, its metadata code and its Serialize    *)
(* implementation.                                                         *)
(***************************************************************************)
\* Display of the error: the message template of the kind with the values it
\* interpolates.
RoverErrorMessage(e) ==
    CASE e.kind = "BuildErrors" ->
            [template |-> "Encountered {n} build errors while trying to build a supergraph.",
             n |-> Len(e.source)]
      [] e.kind = "SubgraphBuildErrors" ->
            [template |-> "Encountered {n} build errors while trying to build subgraph {subgraph} into supergraph {graph_ref}.",
             n |-> Len(e.source), subgraph |-> e.subgraph, graph_ref |-> e.graph_ref]
      [] e.kind = "NoSupergraphBuilds" ->
            [template |-> "No supergraph SDL exists for {graph_ref} because its subgraphs failed to build.",
             graph_ref |-> e.graph_ref]
      [] e.kind = "NoSubgraphInGraph" ->
            [template |-> "Could not find subgraph {invalid_subgraph}.",
             invalid_subgraph |-> e.invalid_subgraph]
      [] e.kind = "OperationCheckFailure" ->
            [template |-> "This operation check has encountered {n} schema changes that would break operations from existing client traffic.",
             n |-> e.check_response.failure_count]
      [] e.kind = "Unclassified" -> [template |-> e.message]

\* Mutant: the check failure is given the code of the build errors.
RoverErrorCode_check_as_build(e) ==
    CASE e.kind \in {"BuildErrors", "SubgraphBuildErrors", "OperationCheckFailure"} -> Some("E029")
      [] e.kind = "NoSupergraphBuilds" -> Some("E027")
      [] e.kind = "NoSubgraphInGraph" -> Some("E009")
      [] e.kind = "Unclassified" -> None

\* Mutant: NoSupergraphBuilds is given the code of the build errors.
RoverErrorCode_no_builds_as_build(e) ==
    CASE e.kind \in {"BuildErrors", "SubgraphBuildErrors", "NoSupergraphBuilds"} -> Some("E029")
      [] e.kind = "NoSubgraphInGraph" -> Some("E009")
      [] e.kind = "OperationCheckFailure" -> Some("E030")
      [] e.kind = "Unclassified" -> None

\* The code the error metadata gives the error; None when it has none.
RoverErrorCode(e) ==
    CASE e.kind = "BuildErrors" -> Some("E029")
      [] e.kind = "SubgraphBuildErrors" -> Some("E029")
      [] e.kind = "NoSupergraphBuilds" -> Some("E027")
      [] e.kind = "NoSubgraphInGraph" -> Some("E009")
      [] e.kind = "OperationCheckFailure" -> Some("E030")
      [] e.kind = "Unclassified" -> None

\* Mutant: the source of NoSupergraphBuilds is not looked at.
RoverErrorBuildErrors_without_no_builds(e) ==
    IF e.kind \in {"BuildErrors", "SubgraphBuildErrors"} THEN Some(e.source) ELSE None

\* The build errors an error's source carries, if it carries any.
RoverErrorBuildErrors(e) ==
    IF e.kind \in {"BuildErrors", "SubgraphBuildErrors", "NoSupergraphBuilds"}
    THEN Some(e.source)
    ELSE None

\* json!(rover_error) for a RoverError.
RoverErrorJson(e) ==
    LET base == [message |-> JStr(RoverErrorMessage(e)), code |-> OptStrJson(RoverErrorCode(e))]
        source == RoverErrorBuildErrors(e)
    IN  IF IsSome(source)
        THEN base @@ [details |-> [build_errors |-> BuildErrorsJson(source.some)]]
        ELSE base

\* RoverError::get_internal_data_json: a failed check still reports the check.
RoverErrorDataJson(e) ==
    IF e.kind = "OperationCheckFailure" THEN CheckResponseJson(e.check_response) ELSE JNull

(***************************************************************************)
(* RoverOutput::get_internal_error_json                                    *)
(***************************************************************************)
\* Mutant: the publish arm does not test build_errors.is_empty().
internal_rover_error_no_empty_test(self) ==
    CASE self.variant = "SubgraphPublishResponse" ->
            Some(SubgraphBuildErrorsErr(self.subgraph, self.graph_ref,
                                        self.publish_response.build_errors))
      [] self.variant = "SubgraphDeleteResponse" ->
            IF Len(self.delete_response.build_errors) # 0
            THEN Some(SubgraphBuildErrorsErr(self.subgraph, self.graph_ref,
                                             self.delete_response.build_errors))
            ELSE None
      [] OTHER -> None

\* Mutant: the delete arm is missing and falls to the catch-all.
internal_rover_error_publish_only(self) ==
    CASE self.variant = "SubgraphPublishResponse" ->
            IF Len(self.publish_response.build_errors) # 0
            THEN Some(SubgraphBuildErrorsErr(self.subgraph, self.graph_ref,
                                             self.publish_response.build_errors))
            ELSE None
      [] OTHER -> None

\* Mutant: a dry run of a delete reports no error.
internal_rover_error_not_for_dry_run(self) ==
    CASE self.variant = "SubgraphPublishResponse" ->
            IF Len(self.publish_response.build_errors) # 0
            THEN Some(SubgraphBuildErrorsErr(self.subgraph, self.graph_ref,
                                             self.publish_response.build_errors))
            ELSE None
      [] self.variant = "SubgraphDeleteResponse" ->
            IF ~self.dry_run /\ Len(self.delete_response.build_errors) # 0
            THEN Some(SubgraphBuildErrorsErr(self.subgraph, self.graph_ref,
                                             self.delete_response.build_errors))
            ELSE None
      [] OTHER -> None

\* Mutant: only the first build error is passed on as the source.
internal_rover_error_first_build_error(self) ==
    CASE self.variant = "SubgraphPublishResponse" ->
            IF Len(self.publish_response.build_errors) # 0
            THEN Some(SubgraphBuildErrorsErr(self.subgraph, self.graph_ref,
                                             SubSeq(self.publish_response.build_errors, 1, 1)))
            ELSE None
      [] self.variant = "SubgraphDeleteResponse" ->
            IF Len(self.delete_response.build_errors) # 0
            THEN Some(SubgraphBuildErrorsErr(self.subgraph, self.graph_ref,
                                             SubSeq(self.delete_response.build_errors, 1, 1)))
            ELSE None
      [] OTHER -> None

\* The Option<RoverError> the match computes.
internal_rover_error(self) ==
    CASE self.variant = "SubgraphPublishResponse" ->
            IF Len(self.publish_response.build_errors) # 0
            THEN Some(SubgraphBuildErrorsErr(self.subgraph, self.graph_ref,
                                             self.publish_response.build_errors))
            ELSE None
      [] self.variant = "SubgraphDeleteResponse" ->
            IF Len(self.delete_response.build_errors) # 0
            THEN Some(SubgraphBuildErrorsErr(self.subgraph, self.graph_ref,
                                             self.delete_response.build_errors))
            ELSE None
      [] OTHER -> None

get_internal_error_json(self) ==
    LET rover_error == internal_rover_error(self)
    IN  IF IsSome(rover_error) THEN RoverErrorJson(rover_error.some) ELSE JNull

\* Mutant: the version depends on the variant.
get_json_version_by_variant(self) ==
    IF self.variant = "EmptySuccess" THEN "2" ELSE "1"

\* RoverOutput::get_json_version: JsonVersion::default()
get_json_version(self) == "1"

(***************************************************************************)
(* JsonOutput: the envelope.                                               *)
(***************************************************************************)
\* JsonData { #[serde(flatten)] inner, success }: the keys of inner beside
\* the success flag; a null inner contributes no key.
JsonData(inner, success) ==
    IF inner = JNull THEN [success |-> JBool(success)]
    ELSE IF IsObject(inner) THEN inner @@ [success |-> JBool(success)]
    ELSE [serde_error |-> "can only flatten structs and maps"]

\* impl From<RoverOutput> for JsonOutput
JsonOutputFromOutput(output) ==
    [json_version |-> JStr(get_json_version(output)),
     data |-> JsonData(get_internal_data_json(output), TRUE),
     error |-> get_internal_error_json(output)]

\* impl From<RoverError> for JsonOutput
JsonOutputFromError(error) ==
    [json_version |-> JStr("1"),
     data |-> JsonData(RoverErrorDataJson(error), FALSE),
     error |-> RoverErrorJson(error)]

(***************************************************************************)
(* Human rendering.  A write to stderr is one record per stderrln!/stderr! *)
(* call; a body is the String get_stdout returns.                          *)
(***************************************************************************)
Text(str) == [text |-> str]
WARN == "WARN:"

\* The match of descriptor.
descriptor_match(self) ==
    CASE self.variant = "ContractDescribe" -> Some("Configuration Description")
      [] self.variant = "ContractPublish" -> Some("New Configuration Description")
      [] self.variant = "FetchResponse" ->
            IF self.fetch_response.sdl.type \in {"Graph", "Subgraph"}
            THEN Some("Schema")
            ELSE Some("Supergraph Schema")
      [] self.variant \in {"CompositionResult", "SupergraphSchema"} -> Some("Supergraph Schema")
      [] self.variant = "TemplateUseSuccess" -> Some("Project generated")
      [] self.variant = "CheckResponse" -> Some("Check Result")
      [] self.variant = "AsyncCheckResponse" -> Some("Check Started")
      [] self.variant = "Profiles" -> Some("Profiles")
      [] self.variant = "Introspection" -> Some("Introspection Response")
      [] self.variant = "ReadmeFetchResponse" -> Some("Readme")
      [] self.variant = "GraphPublishResponse" -> Some("Schema Hash")
      [] OTHER -> None

\* Mutant: the unit success has a heading of its own.
descriptor_of_empty_success(self) ==
    IF self.variant = "EmptySuccess" THEN Some("Success") ELSE descriptor_match(self)

\* RoverOutput::descriptor
descriptor(self) == descriptor_match(self)

\* Mutant: the descriptor is written without asking atty::is(Stdout).
print_descriptor_without_atty(self, stdout_is_tty) ==
    IF IsSome(descriptor(self))
    THEN << [line |-> "descriptor", heading |-> descriptor(self).some, ending |-> ": \n\n"] >>
    ELSE << >>

\* RoverOutput::print_descriptor: what it writes to stderr, given atty::is(Stdout).
print_descriptor(self, stdout_is_tty) ==
    IF stdout_is_tty /\ IsSome(descriptor(self))
    THEN << [line |-> "descriptor", heading |-> descriptor(self).some, ending |-> ": \n\n"] >>
    ELSE << >>

\* RoverOutput::print_one_line_descriptor
print_one_line_descriptor(self, stdout_is_tty) ==
    IF stdout_is_tty /\ IsSome(descriptor(self))
    THEN << [line |-> "descriptor", heading |-> descriptor(self).some, ending |-> ": "] >>
    ELSE << >>

\* DateTime<Local>::format("%Y-%m-%d %H:%M:%S %Z")
format_local(dt) ==
    CASE dt = "2022-01-01T01:00:00+01:00" -> "2022-01-01 01:00:00 +01:00"

\* Mutant: an empty url is kept as it is.
SubgraphRow_keeping_empty_url(subgraph) ==
    LET url == IF IsSome(subgraph.url) THEN subgraph.url.some ELSE "unspecified"
        formatted_updated_at ==
            IF IsSome(subgraph.updated_at.local)
            THEN format_local(subgraph.updated_at.local.some) ELSE "N/A"
    IN  << subgraph.name, url, formatted_updated_at >>

\* One row of the SubgraphList table.
SubgraphRow(subgraph) ==
    LET url0 == IF IsSome(subgraph.url) THEN subgraph.url.some ELSE "unspecified"
        url == IF url0 = "" THEN "unspecified" ELSE url0
        formatted_updated_at ==
            IF IsSome(subgraph.updated_at.local)
            THEN format_local(subgraph.updated_at.local.some) ELSE "N/A"
    IN  << subgraph.name, url, formatted_updated_at >>

\* Vec<String>::join("\n")
Join(strs) ==
    IF Len(strs) = 0 THEN Text("")
    ELSE IF Len(strs) = 1 THEN Text(strs[1])
    ELSE [joined |-> strs, separator |-> "\n"]

\* The match of get_stdout, one arm per variant that writes: its stderrln!
\* calls, in the order it issues them.
stdout_writes_match(self) ==
    CASE self.variant = "DocsList" -> << [line |-> "docs_open_hint"] >>
      [] self.variant = "GraphPublishResponse" ->
            << [line |-> "published_successfully", graph_ref |-> self.graph_ref,
                api_schema_hash |-> self.publish_response.api_schema_hash,
                change_summary |-> self.publish_response.change_summary] >>
      [] self.variant = "SubgraphPublishResponse" ->
            (IF self.publish_response.subgraph_was_created
             THEN << [line |-> "subgraph_created", subgraph |-> self.subgraph,
                      graph_ref |-> self.graph_ref] >>
             ELSE << [line |-> "subgraph_updated", subgraph |-> self.subgraph,
                      graph_ref |-> self.graph_ref] >>)
            \o (IF self.publish_response.supergraph_was_updated
                THEN << [line |-> "supergraph_updated", graph_ref |-> self.graph_ref,
                         subgraph |-> self.subgraph] >>
                ELSE << [line |-> "supergraph_not_updated", graph_ref |-> self.graph_ref] >>)
            \o (IF IsSome(self.publish_response.launch_cli_copy)
                THEN << [line |-> "launch_cli_copy",
                         copy |-> self.publish_response.launch_cli_copy.some] >>
                ELSE << >>)
            \o (IF Len(self.publish_response.build_errors) # 0
                THEN << [line |-> "build_errors_header", prefix |-> WARN],
                        [line |-> "build_errors",
                         errors |-> self.publish_response.build_errors] >>
                ELSE << >>)
      [] self.variant = "SubgraphDeleteResponse" ->
            IF self.dry_run
            THEN IF Len(self.delete_response.build_errors) # 0
                 THEN << [line |-> "delete_would_result_in_build_errors", prefix |-> WARN,
                          subgraph |-> self.subgraph, graph_ref |-> self.graph_ref],
                         [line |-> "build_errors",
                          errors |-> self.delete_response.build_errors],
                         [line |-> "prediction_errors_could_change", prefix |-> WARN] >>
                 ELSE << [line |-> "delete_would_have_no_build_errors", prefix |-> WARN],
                         [line |-> "prediction_there_could_be_errors", prefix |-> WARN] >>
            ELSE (IF self.delete_response.supergraph_was_updated
                  THEN << [line |-> "subgraph_removed", subgraph |-> self.subgraph,
                           graph_ref |-> self.graph_ref] >>
                  ELSE << [line |-> "supergraph_not_updated_see_errors_below",
                           prefix |-> WARN, graph_ref |-> self.graph_ref] >>)
                 \o (IF Len(self.delete_response.build_errors) # 0
                     THEN << [line |-> "delete_build_errors_header", prefix |-> WARN,
                              subgraph |-> self.subgraph, graph_ref |-> self.graph_ref],
                             [line |-> "build_errors",
                              errors |-> self.delete_response.build_errors] >>
                     ELSE << >>)
      [] self.variant = "CompositionResult" ->
            << [line |-> "hints",
                hints_string |-> [i \in 1..Len(self.composition_output.hints) |->
                                    [prefix |-> "HINT:",
                                     message |-> self.composition_output.hints[i].message]]] >>
      [] self.variant = "Profiles" ->
            IF Len(self.profiles) = 0 THEN << [line |-> "no_profiles_found"] >> ELSE << >>
      [] self.variant = "ReadmePublishResponse" ->
            << [line |-> "readme_published", graph_ref |-> self.graph_ref] >>
      [] OTHER -> << >>

\* Mutant: an empty list of profiles is rendered without a word.
get_stdout_writes_silent_profiles(self) ==
    IF self.variant = "Profiles" THEN << >> ELSE stdout_writes_match(self)

\* Mutant: a publish prints the launch message after the build errors.
get_stdout_writes_launch_last(self) ==
    LET writes == stdout_writes_match(self)
    IN  IF self.variant = "SubgraphPublishResponse" /\ Len(writes) = 5
        THEN << writes[1], writes[2], writes[4], writes[5], writes[3] >>
        ELSE writes

\* The stderrln! calls of RoverOutput::get_stdout, in the order it issues them.
get_stdout_writes(self) == stdout_writes_match(self)

\* The match of get_stdout, one arm per variant: the Option<String> it
\* evaluates to.
stdout_body_match(self) ==
    CASE self.variant = "ContractDescribe" ->
            Some([format |-> "{description}\nView the variant's full configuration at {variant_config}",
                  description |-> self.describe_response.description,
                  root_url |-> self.describe_response.root_url,
                  graph_ref |-> self.describe_response.graph_ref])
      [] self.variant = "ContractPublish" ->
            Some([format |-> "{description}\n{launch_cli_copy}",
                  description |-> self.publish_response.config_description,
                  launch_cli_copy |->
                      IF IsSome(self.publish_response.launch_cli_copy)
                      THEN self.publish_response.launch_cli_copy.some
                      ELSE "No launch was triggered for this publish."])
      [] self.variant = "DocsList" ->
            Some([table |-> << <<"Slug", "Description">> >>
                            \o [i \in 1..Len(self.shortlinks) |->
                                  << self.shortlinks[i].slug, self.shortlinks[i].description >>]])
      [] self.variant = "FetchResponse" -> Some(Text(self.fetch_response.sdl.contents))
      [] self.variant = "GraphPublishResponse" ->
            Some(Text(self.publish_response.api_schema_hash))
      [] self.variant = "SubgraphPublishResponse" -> None
      [] self.variant = "SubgraphDeleteResponse" -> None
      [] self.variant = "SupergraphSchema" -> Some(Text(self.csdl))
      [] self.variant = "CompositionResult" ->
            Some(Text(self.composition_output.supergraph_sdl))
      [] self.variant = "SubgraphList" ->
            Some([table |-> << <<"Name", "Routing Url", "Last Updated">> >>
                            \o [i \in 1..Len(self.details.subgraphs) |->
                                  SubgraphRow(self.details.subgraphs[i])],
                  format |-> "{table}/n View full details at {root_url}/graph/{name}/service-list",
                  root_url |-> self.details.root_url,
                  name |-> self.details.graph_ref.name])
      [] self.variant = "TemplateList" ->
            Some([table |-> << <<"Name", "ID", "Language", "Repo URL">> >>
                            \o [i \in 1..Len(self.templates) |->
                                  << self.templates[i].display, self.templates[i].id,
                                     self.templates[i].language, self.templates[i].git_url >>]])
      [] self.variant = "TemplateUseSuccess" ->
            Some([format |-> "Successfully created a new project from the '{template_id}' template in {path}/n Read the generated '{readme}' file for next steps./n{forum_call_to_action}",
                  template_id |-> self.template.id, path |-> self.path])
      [] self.variant = "CheckResponse" ->
            Some([check_table |-> self.check_response])
      [] self.variant = "AsyncCheckResponse" ->
            Some([format |-> "Check successfully started with workflow ID: {workflow_id}/nView full details at {target_url}",
                  workflow_id |-> self.check_response.workflow_id,
                  target_url |-> self.check_response.target_url])
      [] self.variant = "Profiles" -> Some(Join(self.profiles))
      [] self.variant = "Introspection" -> Some(Text(self.introspection_response))
      [] self.variant = "ErrorExplanation" ->
            Some([format |-> "markdown inline", explanation |-> self.explanation])
      [] self.variant = "ReadmeFetchResponse" -> Some(Text(self.content))
      [] self.variant = "ReadmePublishResponse" -> None
      [] self.variant = "EmptySuccess" -> None

\* Mutant: the body of a graph publish is the line it narrates, not the hash.
get_stdout_body_narrated_hash(self) ==
    IF self.variant = "GraphPublishResponse"
    THEN Some([format |-> "{graph_ref}#{api_schema_hash}", graph_ref |-> self.graph_ref,
               api_schema_hash |-> self.publish_response.api_schema_hash])
    ELSE stdout_body_match(self)

\* The Option<String> RoverOutput::get_stdout returns when every write succeeds.
get_stdout_body(self) == stdout_body_match(self)

\* Mutant: a failed write is skipped and the later lines are still written.
get_stdout_written_carrying_on(self, failed_write) ==
    IF failed_write = 0 THEN get_stdout_writes(self)
    ELSE SubSeq(get_stdout_writes(self), 1, failed_write - 1)
         \o SubSeq(get_stdout_writes(self), failed_write + 1, Len(get_stdout_writes(self)))

\* The stderrln! calls of get_stdout that reached stderr when the call number
\* failed_write failed (0: none failed): the `?` returns at the first failure.
get_stdout_written(self, failed_write) ==
    IF failed_write = 0 THEN get_stdout_writes(self)
    ELSE SubSeq(get_stdout_writes(self), 1, failed_write - 1)

\* Mutant: a rendering without a body is reported as a failure.
get_stdout_none_is_err(self, failed_write) ==
    IF failed_write = 0 /\ IsSome(get_stdout_body(self))
    THEN Ok(get_stdout_body(self)) ELSE Err("io::Error")

\* RoverOutput::get_stdout: the io::Result<Option<String>> it returns.
get_stdout(self, failed_write) ==
    IF failed_write = 0 THEN Ok(get_stdout_body(self)) ELSE Err("io::Error")

(***************************************************************************)
(* Command handlers.                                                       *)
(***************************************************************************)
\* templates::request: the three ways the templates server can fail, or the
\* data of its response.
RequestResults ==
    { Err(AnyhowErr(m)) : m \in {"Could not reach templates server: {e}",
                                 "Could not parse response from templates server: {e}",
                                 "No data in response from templates server"} }
    \cup { Ok([templates |-> ts]) : ts \in TemplateLists }

\* Mutant: the empty list is reported as a classified client error.
error_if_empty_classified(values) ==
    IF Len(values) = 0
    THEN Err(NoSubgraphInGraphErr("No templates matched the provided filters", << >>))
    ELSE Ok(values)

\* templates::error_if_empty
error_if_empty(values) ==
    IF Len(values) = 0
    THEN Err(AnyhowErr("No templates matched the provided filters"))
    ELSE Ok(values)

\* templates::get_templates_for_language, given what request returned.
get_templates_for_language(response) ==
    IF IsErr(response) THEN response ELSE error_if_empty(response.ok.templates)

\* Mutant: the list of the server is passed on without a look at its length.
list_templates_unchecked(response) ==
    IF IsErr(response) THEN response ELSE Ok(response.ok.templates)

\* templates::list_templates, given what request returned.
list_templates(response) ==
    IF IsErr(response) THEN response ELSE error_if_empty(response.ok.templates)

\* template::List::run
ListRun(response) ==
    LET templates == list_templates(response)
    IN  IF IsErr(templates) THEN templates
        ELSE Ok([variant |-> "TemplateList", templates |-> templates.ok])

\* The failures the authenticated client and the list query can report.
ClientErrors == {e \in RoverErrors : e.kind \in {"NoSubgraphInGraph", "Unclassified"}}

\* Mutant: the narration line is written before the client is authenticated.
SubgraphListSubcommand_run_narrating_first(client, list_details) ==
    LET authenticate == [step |-> "get_authenticated_client", answer |-> client]
        eprintln == [step |-> "eprintln", line |-> "listing_subgraphs"]
        list_run == [step |-> "list::run", answer |-> list_details]
        writes == << [line |-> eprintln.line] >>
    IN  IF IsErr(client)
        THEN [steps |-> << eprintln, authenticate >>, writes |-> writes, result |-> client]
        ELSE IF IsErr(list_details)
        THEN [steps |-> << eprintln, authenticate, list_run >>, writes |-> writes,
              result |-> list_details]
        ELSE [steps |-> << eprintln, authenticate, list_run >>, writes |-> writes,
              result |-> Ok([variant |-> "SubgraphList", details |-> list_details.ok])]

\* SubgraphListSubcommand::run, given the outcome of get_authenticated_client
\* and of list::run: the steps it takes, what it writes to stderr and what
\* it returns.
SubgraphListSubcommand_run(client, list_details) ==
    LET authenticate == [step |-> "get_authenticated_client", answer |-> client]
        eprintln == [step |-> "eprintln", line |-> "listing_subgraphs"]
        list_run == [step |-> "list::run", answer |-> list_details]
        writes == << [line |-> eprintln.line] >>
    IN  IF IsErr(client)
        THEN [steps |-> << authenticate >>, writes |-> << >>, result |-> client]
        ELSE IF IsErr(list_details)
        THEN [steps |-> << authenticate, eprintln, list_run >>, writes |-> writes,
              result |-> list_details]
        ELSE [steps |-> << authenticate, eprintln, list_run >>, writes |-> writes,
              result |-> Ok([variant |-> "SubgraphList", details |-> list_details.ok])]

\* What any other command hands to the output layer.
CommandOutcomes == {Ok(v) : v \in CommandOutputs} \cup {Err(e) : e \in RoverErrors}

\* Mutant: build errors in a publish or delete output make the exit status 1.
ExitCode_by_error_object(outcome) ==
    IF IsOk(outcome) /\ IsNone(internal_rover_error(outcome.ok)) THEN 0 ELSE 1

\* The exit status of the process: 0 when the command returned a
\* RoverOutput, 1 when it returned an error.
ExitCode(outcome) == IF IsOk(outcome) THEN 0 ELSE 1

(***************************************************************************)
(* The state of one invocation, and of the invocation before it.           *)
(***************************************************************************)
VARIABLES
    pc,             \* where the invocation is
    command,        \* the command that ran
    result,         \* Option<Result<RoverOutput, RoverError>>: what it returned
    stdout_is_tty,  \* atty::is(Stream::Stdout)
    json,           \* the output mode chosen at process start
    stderr,         \* the writes to stderr so far
    stdout,         \* the writes to stdout so far
    returned,       \* Option<io::Result<Option<String>>>: what get_stdout returned
    body,           \* the Option<String> of an Ok return
    envelope,       \* Option<JsonOutput>: the envelope built
    exit_code,      \* Option<int>
    prev,           \* kind, code and message of the last error an earlier
                    \* invocation serialised
    steps           \* what the command's run did, in order: its calls to its
                    \* collaborators with their answers, and its writes

vars == << pc, command, result, stdout_is_tty, json, stderr, stdout, returned, body,
           envelope, exit_code,
                    prev, steps >>

NoPrev == [none |-> TRUE]

Init ==
    /\ pc = "start"
    /\ command = "none"
    /\ result = None
    /\ stdout_is_tty \in BOOLEAN
    /\ json \in BOOLEAN
    /\ stderr = << >>
    /\ stdout = << >>
    /\ returned = None
    /\ body = None
    /\ envelope = None
    /\ exit_code = None
    /\ prev = NoPrev
    /\ steps = << >>

\* A command other than the two modelled step by step runs to its outcome.
RunCommand ==
    /\ pc = "start"
    /\ \E outcome \in CommandOutcomes : result' = Some(outcome)
    /\ command' = "other"
    /\ pc' = "ran"
    /\ UNCHANGED << stdout_is_tty, json, stderr, stdout, returned, body, envelope, exit_code,
                    prev, steps >>

\* rover subgraph list
SubgraphListRun ==
    /\ pc = "start"
    /\ \E client \in {Ok("client")} \cup {Err(e) : e \in ClientErrors},
          list_details \in {Ok(d) : d \in SubgraphListResponses}
                           \cup {Err(e) : e \in ClientErrors} :
          LET ran == SubgraphListSubcommand_run(client, list_details)
          IN  /\ stderr' = stderr \o ran.writes
              /\ result' = Some(ran.result)
              /\ steps' = ran.steps
    /\ command' = "subgraph list"
    /\ pc' = "ran"
    /\ UNCHANGED << stdout_is_tty, json, stdout, returned, body, envelope, exit_code, prev >>

\* rover template list
TemplateListRun ==
    /\ pc = "start"
    /\ \E response \in RequestResults :
          /\ result' = Some(ListRun(response))
          /\ steps' = << [step |-> "request", answer |-> response] >>
    /\ command' = "template list"
    /\ pc' = "ran"
    /\ UNCHANGED << stdout_is_tty, json, stderr, stdout, returned, body, envelope, exit_code,
                    prev >>

\* Machine mode: the envelope is built from the outcome and printed.
RenderJson ==
    /\ pc = "ran"
    /\ json
    /\ LET outcome == result.some
           built == IF IsOk(outcome) THEN JsonOutputFromOutput(outcome.ok)
                    ELSE JsonOutputFromError(outcome.err)
       IN  /\ envelope' = Some(built)
           /\ stdout' = Append(stdout, [json |-> built])
           /\ exit_code' = Some(ExitCode(outcome))
    /\ pc' = "done"
    /\ UNCHANGED << command, result, stdout_is_tty, json, stderr, returned, body, prev, steps >>

\* Human mode, a RoverOutput: the descriptor first, in either of its forms.
PrintDescriptor ==
    /\ pc = "ran"
    /\ ~json
    /\ IsOk(result.some)
    /\ \E one_line \in BOOLEAN :
          stderr' = stderr \o (IF one_line
                               THEN print_one_line_descriptor(result.some.ok, stdout_is_tty)
                               ELSE print_descriptor(result.some.ok, stdout_is_tty))
    /\ pc' = "described"
    /\ UNCHANGED << command, result, stdout_is_tty, json, stdout, returned, body, envelope,
                    exit_code, prev, steps >>

\* Mutant: get_stdout prints its status lines instead of writing them to stderr.
GetStdout_narrating_on_stdout ==
    /\ pc = "described"
    /\ \E failed_write \in 0..Len(get_stdout_writes(result.some.ok)) :
          /\ stdout' = stdout \o get_stdout_written(result.some.ok, failed_write)
          /\ returned' = Some(get_stdout(result.some.ok, failed_write))
          /\ body' = IF failed_write = 0 THEN get_stdout_body(result.some.ok) ELSE None
          /\ pc' = IF failed_write = 0 THEN "body" ELSE "io_failed"
    /\ UNCHANGED << command, result, stdout_is_tty, json, stderr, envelope, exit_code,
                    prev, steps >>

\* Mutant: get_stdout issues its status lines last to first.
GetStdout_last_line_first ==
    /\ pc = "described"
    /\ \E failed_write \in 0..Len(get_stdout_writes(result.some.ok)) :
          LET written == get_stdout_written(result.some.ok, failed_write)
          IN  /\ stderr' = stderr \o [i \in 1..Len(written) |-> written[Len(written) + 1 - i]]
              /\ returned' = Some(get_stdout(result.some.ok, failed_write))
              /\ body' = IF failed_write = 0 THEN get_stdout_body(result.some.ok) ELSE None
              /\ pc' = IF failed_write = 0 THEN "body" ELSE "io_failed"
    /\ UNCHANGED << command, result, stdout_is_tty, json, stdout, envelope, exit_code,
                    prev, steps >>

\* Human mode: get_stdout writes its status lines and returns the body, or
\* returns the error of the first write that fails.
GetStdout ==
    /\ pc = "described"
    /\ \E failed_write \in 0..Len(get_stdout_writes(result.some.ok)) :
          /\ stderr' = stderr \o get_stdout_written(result.some.ok, failed_write)
          /\ returned' = Some(get_stdout(result.some.ok, failed_write))
          /\ body' = IF failed_write = 0 THEN get_stdout_body(result.some.ok) ELSE None
          /\ pc' = IF failed_write = 0 THEN "body" ELSE "io_failed"
    /\ UNCHANGED << command, result, stdout_is_tty, json, stdout, envelope, exit_code,
                    prev, steps >>

\* Human mode: the body, if there is one, goes to stdout and the process exits.
WriteBody ==
    /\ pc = "body"
    /\ stdout' = IF IsSome(body) THEN Append(stdout, body.some) ELSE stdout
    /\ exit_code' = Some(ExitCode(result.some))
    /\ pc' = "done"
    /\ UNCHANGED << command, result, stdout_is_tty, json, stderr, returned, body, envelope,
                    prev, steps >>

\* Human mode, an error: its message goes to stderr and the process exits.
PrintError ==
    /\ pc = "ran"
    /\ ~json
    /\ IsErr(result.some)
    /\ stderr' = Append(stderr, [line |-> "error",
                                 message |-> RoverErrorMessage(result.some.err)])
    /\ exit_code' = Some(ExitCode(result.some))
    /\ pc' = "done"
    /\ UNCHANGED << command, result, stdout_is_tty, json, stdout, returned, body, envelope,
                    prev, steps >>

\* The error a finished invocation serialised into its envelope, if any.
SerialisedError ==
    IF IsNone(envelope) THEN None
    ELSE IF IsErr(result.some) THEN Some(result.some.err)
    ELSE internal_rover_error(result.some.ok)

\* The process has exited, or get_stdout has handed an io::Error to its
\* caller; the client is invoked again.
NextInvocation ==
    /\ pc \in {"done", "io_failed"}
    /\ prev' = IF IsSome(SerialisedError)
               THEN [kind |-> SerialisedError.some.kind,
                     code |-> envelope.some.error.code,
                     message |-> envelope.some.error.message]
               ELSE prev
    /\ pc' = "start"
    /\ command' = "none"
    /\ result' = None
    /\ stdout_is_tty' \in BOOLEAN
    /\ json' \in BOOLEAN
    /\ stderr' = << >>
    /\ stdout' = << >>
    /\ returned' = None
    /\ body' = None
    /\ envelope' = None
    /\ exit_code' = None
    /\ steps' = << >>

Next ==
    \/ RunCommand
    \/ SubgraphListRun
    \/ TemplateListRun
    \/ RenderJson
    \/ PrintDescriptor
    \/ GetStdout
    \/ WriteBody
    \/ PrintError
    \/ NextInvocation

Spec == Init /\ [][Next]_vars

(***************************************************************************)
(* Properties.                                                             *)
(***************************************************************************)
\* The invocation built an envelope from a RoverOutput / from an error.
EnvelopeOfOutput == IsSome(envelope) /\ IsOk(result.some)
EnvelopeOfError == IsSome(envelope) /\ IsErr(result.some)
\* The build errors a publish or delete output carries; empty for the rest.
OutputBuildErrors(v) ==
    IF v.variant = "SubgraphPublishResponse" THEN v.publish_response.build_errors
    ELSE IF v.variant = "SubgraphDeleteResponse" THEN v.delete_response.build_errors
    ELSE << >>

\* C1: the envelope of every RoverOutput that is not a publish or delete
\* response with build errors has data.success == true and error == null.
C1_CleanOutputHasNoError ==
    (EnvelopeOfOutput /\ Len(OutputBuildErrors(result.some.ok)) = 0) =>
        /\ HasKey(envelope.some.data, "success")
        /\ envelope.some.data.success = JBool(TRUE)
        /\ envelope.some.error = JNull
        /\ get_internal_error_json(result.some.ok) = JNull

C1_Witness ==
    /\ EnvelopeOfOutput
    /\ result.some.ok.variant \in {"SubgraphPublishResponse", "SubgraphDeleteResponse"}
    /\ Len(OutputBuildErrors(result.some.ok)) = 0
    /\ envelope.some.error = JNull

\* C2: the envelope of a publish or delete response with n > 0 build errors
\* has data.success == true together with a non-null error whose code is
\* E029 and whose details.build_errors has exactly n entries, each with a
\* message, a nullable code and the type "composition".
C2_DualState ==
    (EnvelopeOfOutput /\ Len(OutputBuildErrors(result.some.ok)) > 0) =>
        LET n == Len(OutputBuildErrors(result.some.ok))
            env == envelope.some
        IN  /\ env.data.success = JBool(TRUE)
            /\ env.error # JNull
            /\ IsObject(env.error)
            /\ env.error.code = JStr("E029")
            /\ HasKey(env.error, "details")
            /\ HasKey(env.error.details, "build_errors")
            /\ "arr" \in DOMAIN env.error.details.build_errors
            /\ Len(env.error.details.build_errors.arr) = n
            /\ \A i \in 1..n :
                  LET entry == env.error.details.build_errors.arr[i]
                  IN  /\ DOMAIN entry = {"message", "code", "type"}
                      /\ "str" \in DOMAIN entry.message
                      /\ entry.code = JNull \/ "str" \in DOMAIN entry.code
                      /\ entry.type = JStr("composition")

C2_Witness ==
    /\ EnvelopeOfOutput
    /\ result.some.ok.variant = "SubgraphDeleteResponse"
    /\ Len(OutputBuildErrors(result.some.ok)) = 2
    /\ envelope.some.data.success = JBool(TRUE)
    /\ envelope.some.error # JNull
    /\ envelope.some.error.details.build_errors.arr[2].code = JNull

\* The code each error kind is expected to render with.
FixedCode ==
    [BuildErrors |-> JStr("E029"), SubgraphBuildErrors |-> JStr("E029"),
     NoSupergraphBuilds |-> JStr("E027"), NoSubgraphInGraph |-> JStr("E009"),
     OperationCheckFailure |-> JStr("E030"), Unclassified |-> JNull]

\* C3: the envelope of an error has data.success == false and error.code
\* equal to the fixed code of the error's kind, and an error of the same kind
\* serialised by an earlier invocation, whatever its message, got that code.
C3_ErrorCodeFixedPerKind ==
    EnvelopeOfError =>
        /\ envelope.some.data.success = JBool(FALSE)
        /\ envelope.some.error.code = FixedCode[result.some.err.kind]
        /\ (prev # NoPrev /\ prev.kind = result.some.err.kind) =>
                prev.code = envelope.some.error.code

C3_Witness ==
    /\ EnvelopeOfError
    /\ prev # NoPrev
    /\ prev.kind = result.some.err.kind
    /\ prev.kind = "NoSubgraphInGraph"
    /\ prev.message # envelope.some.error.message
    /\ prev.code = envelope.some.error.code

\* The invocation serialised an error of a classified kind into its envelope.
ClassifiedErrorSerialised ==
    IsSome(SerialisedError) /\ SerialisedError.some.kind \in ClassifiedKinds
PrevClassified == prev # NoPrev /\ prev.kind \in ClassifiedKinds

\* C4 as stated: every classified kind has exactly one code and no two
\* distinct kinds share a code.
C4_CodeKindBijection ==
    ClassifiedErrorSerialised =>
        /\ "str" \in DOMAIN envelope.some.error.code
        /\ (PrevClassified /\ prev.kind = SerialisedError.some.kind) =>
                prev.code = envelope.some.error.code
        /\ (PrevClassified /\ prev.kind # SerialisedError.some.kind) =>
                prev.code # envelope.some.error.code

\* C4, amended: every classified kind has exactly one code, and two distinct
\* kinds share a code only when they are BuildErrors and SubgraphBuildErrors,
\* which both render as E029.
C4_CodePerKindSharedOnlyByBuildErrors ==
    ClassifiedErrorSerialised =>
        /\ "str" \in DOMAIN envelope.some.error.code
        /\ (PrevClassified /\ prev.kind = SerialisedError.some.kind) =>
                prev.code = envelope.some.error.code
        /\ (PrevClassified /\ prev.kind # SerialisedError.some.kind
                /\ prev.code = envelope.some.error.code) =>
                /\ {prev.kind, SerialisedError.some.kind} = {"BuildErrors", "SubgraphBuildErrors"}
                /\ prev.code = JStr("E029")

C4_Witness ==
    /\ ClassifiedErrorSerialised
    /\ PrevClassified
    /\ prev.kind = "BuildErrors"
    /\ SerialisedError.some.kind = "SubgraphBuildErrors"
    /\ prev.code = envelope.some.error.code

\* C5: the machine data of every RoverOutput is a JSON object with a boolean
\* success field; for EmptySuccess it is exactly {"success": true}, with
\* error == null.
C5_DataIsObjectWithSuccess ==
    EnvelopeOfOutput =>
        /\ IsObject(envelope.some.data)
        /\ envelope.some.data # JNull
        /\ HasKey(envelope.some.data, "success")
        /\ envelope.some.data.success \in {JBool(TRUE), JBool(FALSE)}
        /\ result.some.ok.variant = "EmptySuccess" =>
              /\ envelope.some.data = [success |-> JBool(TRUE)]
              /\ envelope.some.error = JNull

C5_Witness ==
    /\ EnvelopeOfOutput
    /\ result.some.ok.variant = "EmptySuccess"
    /\ get_internal_data_json(result.some.ok) = JNull
    /\ DOMAIN envelope.some.data = {"success"}

\* C6: an unclassified failure, such as those request and error_if_empty
\* raise for the template commands, renders with data == {"success": false},
\* error.code == null, error.message its plain message, and no details.
C6_UnclassifiedFailure ==
    (EnvelopeOfError
        /\ (result.some.err.kind = "Unclassified" \/ command = "template list")) =>
        /\ result.some.err.kind = "Unclassified"
        /\ envelope.some.data = [success |-> JBool(FALSE)]
        /\ envelope.some.error.code = JNull
        /\ envelope.some.error.message = JStr([template |-> result.some.err.message])
        /\ DOMAIN envelope.some.error = {"message", "code"}

C6_Witness ==
    /\ EnvelopeOfError
    /\ command = "template list"
    /\ result.some.err.message = "No templates matched the provided filters"
    /\ envelope.some.error.code = JNull

\* C7: the error object of an envelope has a details field exactly when the
\* error kind carries a build-error list (BuildErrors, SubgraphBuildErrors,
\* NoSupergraphBuilds).
C7_DetailsOnlyForBuildErrorKinds ==
    IsSome(SerialisedError) =>
        ( HasKey(envelope.some.error, "details")
          <=> SerialisedError.some.kind \in
                {"BuildErrors", "SubgraphBuildErrors", "NoSupergraphBuilds"} )

C7_Witness ==
    /\ EnvelopeOfError
    /\ result.some.err.kind = "NoSupergraphBuilds"
    /\ HasKey(envelope.some.error, "details")
    /\ prev # NoPrev
    /\ prev.kind = "OperationCheckFailure"

C9_ExitCode ==
    IsSome(exit_code) =>
        /\ exit_code.some = 0 <=> IsOk(result.some)
        /\ exit_code.some # 0 <=> IsErr(result.some)

C9_Witness ==
    /\ IsSome(exit_code)
    /\ exit_code.some = 0
    /\ EnvelopeOfOutput
    /\ envelope.some.error # JNull

\* Human rendering of a RoverOutput with stdout not a terminal.
HumanOutputNoTty ==
    ~json /\ ~stdout_is_tty /\ IsSome(result) /\ IsOk(result.some)

HumanOutput == ~json /\ IsSome(result) /\ IsOk(result.some)

\* What the command wrote to stderr before it returned its RoverOutput.
CommandNarration ==
    IF command = "subgraph list" THEN << [line |-> "listing_subgraphs"] >> ELSE << >>

\* C11: in every state of the human rendering of a RoverOutput, no descriptor
\* or status line is on stdout: what print_descriptor or
\* print_one_line_descriptor and get_stdout wrote is on stderr, and stdout
\* holds nothing but the returned body, once it is written.
C11_NarrationOnlyOnStderr ==
    HumanOutput =>
        LET v == result.some.ok
        IN  /\ \A i \in 1..Len(stdout) : "line" \notin DOMAIN stdout[i]
            /\ stdout = IF pc = "done" /\ IsSome(get_stdout_body(v))
                        THEN << get_stdout_body(v).some >> ELSE << >>
            /\ pc \in {"body", "done"} =>
                  \E described \in {print_descriptor(v, stdout_is_tty),
                                    print_one_line_descriptor(v, stdout_is_tty)} :
                      stderr = CommandNarration \o described \o get_stdout_writes(v)

C11_Witness ==
    /\ HumanOutput
    /\ stdout_is_tty
    /\ pc = "done"
    /\ result.some.ok.variant = "CompositionResult"
    /\ Len(stderr) = 2
    /\ stderr[1].line = "descriptor"
    /\ stderr[2].line = "hints"
    /\ stdout = << Text(result.some.ok.composition_output.supergraph_sdl) >>

\* C12: within one human rendering of a RoverOutput, the step in which
\* get_stdout returns the body appends every status line of the output to
\* stderr, in the order get_stdout issues them, while stdout is still empty;
\* once get_stdout has returned, stderr does not change any more, and stdout
\* changes only after an Ok return.
C12_StatusLinesBeforeBody ==
    [][ HumanOutput =>
          /\ (IsNone(returned) /\ IsSome(returned') /\ IsOk(returned'.some)) =>
                /\ stderr' = stderr \o get_stdout_writes(result.some.ok)
                /\ stdout = << >>
                /\ stdout' = << >>
          /\ (IsSome(returned) /\ IsSome(returned')) => stderr' = stderr
          /\ (stdout' # stdout /\ pc' # "start") =>
                /\ IsSome(returned) /\ IsOk(returned.some)
                /\ stdout' = Append(stdout, returned.some.ok.some)
      ]_vars

C12_Witness ==
    /\ HumanOutput
    /\ stdout_is_tty
    /\ pc = "done"
    /\ result.some.ok.variant = "SubgraphPublishResponse"
    /\ Len(stderr) = 5
    /\ stderr[4].line = "build_errors_header"
    /\ stderr[5].line = "build_errors"
    /\ IsOk(returned.some)

\* The human rendering of a SubgraphList has returned its body.
SubgraphListRendered ==
    /\ HumanOutput
    /\ result.some.ok.variant = "SubgraphList"
    /\ IsSome(returned)
    /\ IsOk(returned.some)

\* C13: the table of a SubgraphList has, after its header, exactly one row
\* of three cells per subgraph, in input order; the second cell is the url,
\* or "unspecified" when the url is None or empty, the third is the formatted
\* local updated_at, or "N/A" when it is missing, and neither is empty.
C13_SubgraphTableRows ==
    SubgraphListRendered =>
        LET subgraphs == result.some.ok.details.subgraphs
            table == returned.some.ok.some.table
        IN  /\ Len(table) = Len(subgraphs) + 1
            /\ table[1] = << "Name", "Routing Url", "Last Updated" >>
            /\ \A i \in 1..Len(subgraphs) :
                  LET subgraph == subgraphs[i]
                      cells == table[i + 1]
                  IN  /\ Len(cells) = 3
                      /\ cells[1] = subgraph.name
                      /\ cells[2] = IF IsNone(subgraph.url) THEN "unspecified"
                                    ELSE IF subgraph.url.some = "" THEN "unspecified"
                                    ELSE subgraph.url.some
                      /\ IsNone(subgraph.updated_at.local) => cells[3] = "N/A"
                      /\ IsSome(subgraph.updated_at.local) => cells[3] \notin {"N/A", ""}
                      /\ \A c \in 2..3 : cells[c] # ""

C13_Witness ==
    /\ SubgraphListRendered
    /\ Len(result.some.ok.details.subgraphs) = 2
    /\ result.some.ok.details.subgraphs[1].url = Some("")
    /\ result.some.ok.details.subgraphs[2].url = None
    /\ IsNone(result.some.ok.details.subgraphs[2].updated_at.local)
    /\ stdout = << returned.some.ok.some >>
    /\ stdout[1].table[2][2] = "unspecified"
    /\ stdout[1].table[3][3] = "N/A"

\* The invocation has a Profiles output in hand.
ProfilesOutput ==
    IsSome(result) /\ IsOk(result.some) /\ result.some.ok.variant = "Profiles"

\* C14: for Profiles, the machine data has success true and profiles equal
\* to the names in input order, [] for the empty list; the human rendering of
\* the empty list writes the "No profiles found." line to stderr and returns
\* the empty string as body; that of a non-empty list writes no such line
\* and returns the names joined by newlines in input order.
C14_Profiles ==
    ProfilesOutput =>
        LET profiles == result.some.ok.profiles
            no_profiles_found == [line |-> "no_profiles_found"]
        IN  /\ IsSome(envelope) =>
                  /\ envelope.some.data.success = JBool(TRUE)
                  /\ envelope.some.data.profiles =
                        JArr([i \in 1..Len(profiles) |-> JStr(profiles[i])])
                  /\ Len(profiles) = 0 => envelope.some.data.profiles = JArr(<< >>)
            /\ (~json /\ pc \in {"body", "done"}) =>
                  /\ Len(profiles) = 0 =>
                        /\ Len(stderr) > 0
                        /\ stderr[Len(stderr)] = no_profiles_found
                        /\ body = Some(Text(""))
                  /\ Len(profiles) = 1 => body = Some(Text(profiles[1]))
                  /\ Len(profiles) > 1 =>
                        body = Some([joined |-> profiles, separator |-> "\n"])
                  /\ Len(profiles) > 0 =>
                        \A i \in 1..Len(stderr) : stderr[i] # no_profiles_found
                  /\ pc = "done" => stdout = << body.some >>

C14_Witness ==
    /\ ProfilesOutput
    /\ ~json
    /\ pc = "done"
    /\ Len(result.some.ok.profiles) = 0
    /\ stderr = << [line |-> "no_profiles_found"] >>
    /\ stdout = << Text("") >>

\* The variants whose human rendering has no body.
NoBodyVariants ==
    {"SubgraphPublishResponse", "SubgraphDeleteResponse", "ReadmePublishResponse",
     "EmptySuccess"}

\* C15: get_stdout returns Err only when one of its writes to stderr failed,
\* never because there is no body; it returns Ok(None) exactly for
\* SubgraphPublishResponse, SubgraphDeleteResponse, ReadmePublishResponse and
\* EmptySuccess, whose envelope has data.success == true, and the process
\* then exits with status 0 and nothing on stdout.
C15_NoBodyIsNotFailure ==
    /\ (HumanOutput /\ IsSome(returned)) =>
          LET v == result.some.ok
          IN  /\ IsErr(returned.some) =>
                    /\ pc = "io_failed"
                    /\ Len(stderr) < Len(CommandNarration) + Len(get_stdout_writes(v))
                                        + Len(print_descriptor(v, stdout_is_tty))
              /\ IsOk(returned.some) =>
                    (returned.some.ok = None <=> v.variant \in NoBodyVariants)
              /\ (IsOk(returned.some) /\ returned.some.ok = None) =>
                    /\ JsonOutputFromOutput(v).data.success = JBool(TRUE)
                    /\ pc = "done" => (exit_code = Some(0) /\ stdout = << >>)
    /\ (EnvelopeOfOutput /\ result.some.ok.variant \in NoBodyVariants) =>
          envelope.some.data.success = JBool(TRUE)

C15_Witness ==
    /\ HumanOutput
    /\ result.some.ok.variant = "ReadmePublishResponse"
    /\ returned = Some(Ok(None))
    /\ pc = "done"
    /\ exit_code = Some(0)
    /\ stdout = << >>
    /\ Len(stderr) = 1

\* C16: every envelope, built from a RoverOutput or from an error, has
\* json_version == "1", which is what get_json_version returns for the
\* RoverOutput at hand, whatever its variant.
C16_JsonVersion ==
    IsSome(envelope) =>
        /\ envelope.some.json_version = JStr("1")
        /\ IsOk(result.some) =>
              envelope.some.json_version = JStr(get_json_version(result.some.ok))
        /\ stdout = << [json |-> envelope.some] >>

C16_Witness ==
    /\ EnvelopeOfOutput
    /\ result.some.ok.variant = "EmptySuccess"
    /\ envelope.some.json_version = JStr("1")
    /\ prev # NoPrev
    /\ prev.kind = "Unclassified"

\* The invocation serialised an error that carries a list of build errors.
BuildErrorsSerialised ==
    /\ IsSome(SerialisedError)
    /\ SerialisedError.some.kind \in {"BuildErrors", "SubgraphBuildErrors", "NoSupergraphBuilds"}
\* The list the command had in hand, and the message the envelope gives.
SourceBuildErrors ==
    IF IsErr(result.some) THEN result.some.err.source ELSE OutputBuildErrors(result.some.ok)
SerialisedMessage == envelope.some.error.message.str
\* The message states the number of build errors.
StatesCount(message) == "n" \in DOMAIN message /\ message.n = Len(SourceBuildErrors)
\* The message names the graph ref; the subgraph.
StatesGraphRef(message) ==
    "graph_ref" \in DOMAIN message /\ message.graph_ref = SerialisedError.some.graph_ref
StatesSubgraph(message) ==
    "subgraph" \in DOMAIN message /\ message.subgraph = SerialisedError.some.subgraph
\* error.details.build_errors is the source list, entry by entry.
DetailsAreFullList ==
    LET details == envelope.some.error.details.build_errors
    IN  /\ "arr" \in DOMAIN details
        /\ Len(details.arr) = Len(SourceBuildErrors)
        /\ \A i \in 1..Len(SourceBuildErrors) :
              /\ DOMAIN details.arr[i] = {"message", "code", "type"}
              /\ details.arr[i].message = OptStrJson(SourceBuildErrors[i].message)
              /\ details.arr[i].code = OptStrJson(SourceBuildErrors[i].code)
              /\ details.arr[i].type = JStr(SourceBuildErrors[i].type)

\* C17 as stated: the message of BuildErrors, SubgraphBuildErrors and
\* NoSupergraphBuilds states the number of build errors and the subgraph and
\* graph identifiers, and error.details.build_errors is the full source list
\* in the same order.
C17_MessageStatesCountAndIdentifiers ==
    BuildErrorsSerialised =>
        /\ StatesCount(SerialisedMessage)
        /\ StatesSubgraph(SerialisedMessage)
        /\ StatesGraphRef(SerialisedMessage)
        /\ DetailsAreFullList

\* C17, amended: error.details.build_errors is the full source list in the
\* same order, each entry with its message, code and type; the message of
\* SubgraphBuildErrors states the number of build errors, the subgraph and
\* the graph ref, that of BuildErrors states the number only, and that of
\* NoSupergraphBuilds the graph ref only.
C17_FullListAndMessagePerKind ==
    BuildErrorsSerialised =>
        LET kind == SerialisedError.some.kind
        IN  /\ DetailsAreFullList
            /\ StatesCount(SerialisedMessage) <=> kind \in {"BuildErrors", "SubgraphBuildErrors"}
            /\ StatesSubgraph(SerialisedMessage) <=> kind = "SubgraphBuildErrors"
            /\ StatesGraphRef(SerialisedMessage)
                    <=> kind \in {"SubgraphBuildErrors", "NoSupergraphBuilds"}

C17_Witness ==
    /\ BuildErrorsSerialised
    /\ EnvelopeOfOutput
    /\ Len(SourceBuildErrors) = 2
    /\ SourceBuildErrors[1] # SourceBuildErrors[2]
    /\ SerialisedMessage.n = 2
    /\ Len(envelope.some.error.details.build_errors.arr) = 2
    /\ prev # NoPrev
    /\ prev.kind = "NoSupergraphBuilds"

\* The variants the match of descriptor leaves to its catch-all arm.
NoHeadingVariants ==
    {"EmptySuccess", "DocsList", "SubgraphList", "TemplateList", "SubgraphPublishResponse",
     "SubgraphDeleteResponse", "ErrorExplanation", "ReadmePublishResponse"}
\* Two outputs the descriptor may not tell apart.
SameDescriptorInputs(v, w) ==
    /\ v.variant = w.variant
    /\ v.variant = "FetchResponse" => v.fetch_response.sdl.type = w.fetch_response.sdl.type

\* C18: the descriptor of an output is the same for every output of its
\* variant (and SDL type, for FetchResponse); it is "Check Result" for
\* CheckResponse, "Project generated" for TemplateUseSuccess, "Schema" for a
\* FetchResponse of a Graph or Subgraph SDL and "Supergraph Schema" for one
\* of a Supergraph SDL, and None for EmptySuccess, DocsList, SubgraphList,
\* TemplateList, SubgraphPublishResponse, SubgraphDeleteResponse,
\* ErrorExplanation and ReadmePublishResponse, for which neither
\* print_descriptor nor print_one_line_descriptor writes anything, even to
\* a terminal.
C18_DescriptorPerVariant ==
    (IsSome(result) /\ IsOk(result.some)) =>
        LET v == result.some.ok
            d == descriptor(v)
        IN  /\ \A w \in CommandOutputs : SameDescriptorInputs(v, w) => descriptor(w) = d
            /\ v.variant = "CheckResponse" => d = Some("Check Result")
            /\ v.variant = "TemplateUseSuccess" => d = Some("Project generated")
            /\ v.variant = "FetchResponse" =>
                  d = IF v.fetch_response.sdl.type = "Supergraph"
                      THEN Some("Supergraph Schema") ELSE Some("Schema")
            /\ d = None <=> v.variant \in NoHeadingVariants
            /\ v.variant \in NoHeadingVariants =>
                  /\ print_descriptor(v, TRUE) = << >>
                  /\ print_one_line_descriptor(v, TRUE) = << >>
                  /\ \A i \in 1..Len(stderr) : stderr[i].line # "descriptor"
            /\ (HumanOutput /\ stdout_is_tty /\ pc \in {"described", "body", "done"}
                    /\ v.variant \notin NoHeadingVariants) =>
                  \E i \in 1..Len(stderr) :
                      stderr[i].line = "descriptor" /\ stderr[i].heading = d.some

C18_Witness ==
    /\ HumanOutput
    /\ stdout_is_tty
    /\ pc = "done"
    /\ result.some.ok.variant = "SubgraphList"
    /\ descriptor(result.some.ok) = None
    /\ stderr = << [line |-> "listing_subgraphs"] >>
    /\ Len(stdout) = 1

\* get_stdout has returned from the human rendering of a publish.
SubgraphPublishRendered ==
    /\ HumanOutput
    /\ result.some.ok.variant = "SubgraphPublishResponse"
    /\ IsSome(returned)
\* The status lines a publish is expected to write, in order.
PublishLines(publish_response) ==
    << IF publish_response.subgraph_was_created
       THEN "subgraph_created" ELSE "subgraph_updated" >>
    \o << IF publish_response.supergraph_was_updated
          THEN "supergraph_updated" ELSE "supergraph_not_updated" >>
    \o (IF IsSome(publish_response.launch_cli_copy) THEN << "launch_cli_copy" >> ELSE << >>)
    \o (IF Len(publish_response.build_errors) > 0
        THEN << "build_errors_header", "build_errors" >> ELSE << >>)

\* C19: the stderr of the human rendering of a SubgraphPublishResponse is, in
\* this order, one line saying the subgraph was created or was updated, one
\* saying the supergraph was or was NOT updated, the launch message exactly
\* when launch_cli_copy is present, and the WARN header followed by the
\* build errors exactly when there are build errors; the body is None.  When
\* a write fails, stderr is a proper prefix of these lines.
C19_PublishStatusLineOrder ==
    SubgraphPublishRendered =>
        LET v == result.some.ok
            expected == PublishLines(v.publish_response)
            lines == [i \in 1..Len(stderr) |-> stderr[i].line]
        IN  /\ IsErr(returned.some) =>
                  Len(lines) < Len(expected) /\ lines = SubSeq(expected, 1, Len(lines))
            /\ IsOk(returned.some) =>
                  /\ lines = expected
                  /\ returned.some.ok = None
                  /\ stdout = << >>
                  /\ \A i \in 1..Len(stderr) :
                        /\ stderr[i].line = "launch_cli_copy" =>
                              stderr[i].copy = v.publish_response.launch_cli_copy.some
                        /\ stderr[i].line = "build_errors_header" => stderr[i].prefix = WARN
                        /\ stderr[i].line = "build_errors" =>
                              stderr[i].errors = v.publish_response.build_errors

C19_Witness ==
    /\ SubgraphPublishRendered
    /\ pc = "done"
    /\ ~result.some.ok.publish_response.subgraph_was_created
    /\ ~result.some.ok.publish_response.supergraph_was_updated
    /\ IsNone(result.some.ok.publish_response.launch_cli_copy)
    /\ Len(stderr) = 4
    /\ stderr[1].line = "subgraph_updated"
    /\ stderr[2].line = "supergraph_not_updated"
    /\ stderr[4].errors = result.some.ok.publish_response.build_errors
    /\ returned = Some(Ok(None))

\* The invocation has a CompositionResult in hand.
CompositionResultOutput ==
    IsSome(result) /\ IsOk(result.some) /\ result.some.ok.variant = "CompositionResult"

\* C20: for a CompositionResult, the machine data has core_schema equal to
\* the supergraph SDL, hints equal to the hints in input order, and a
\* federation_version key exactly when the output's federation_version is
\* Some; the human rendering writes to stderr one "HINT:" line per hint, in
\* input order, and returns the supergraph SDL as it is as the body.
C20_CompositionResult ==
    CompositionResultOutput =>
        LET composition_output == result.some.ok.composition_output
            hints == composition_output.hints
        IN  /\ IsSome(envelope) =>
                  LET data == envelope.some.data
                  IN  /\ data.success = JBool(TRUE)
                      /\ data.core_schema = JStr(composition_output.supergraph_sdl)
                      /\ data.hints = JArr([i \in 1..Len(hints) |->
                                              [message |-> JStr(hints[i].message)]])
                      /\ HasKey(data, "federation_version")
                            <=> IsSome(composition_output.federation_version)
                      /\ IsSome(composition_output.federation_version) =>
                            data.federation_version =
                                JStr(composition_output.federation_version.some)
            /\ (~json /\ pc \in {"body", "done"}) =>
                  LET written == stderr[Len(stderr)]
                  IN  /\ written.line = "hints"
                      /\ Len(written.hints_string) = Len(hints)
                      /\ \A i \in 1..Len(hints) :
                            written.hints_string[i] =
                                [prefix |-> "HINT:", message |-> hints[i].message]
                      /\ \A i \in 1..(Len(stderr) - 1) : stderr[i].line # "hints"
                      /\ body = Some(Text(composition_output.supergraph_sdl))
                      /\ pc = "done" => stdout = << Text(composition_output.supergraph_sdl) >>

C20_Witness ==
    /\ CompositionResultOutput
    /\ EnvelopeOfOutput
    /\ Len(result.some.ok.composition_output.hints) = 2
    /\ result.some.ok.composition_output.hints[1].message = "hint two"
    /\ result.some.ok.composition_output.hints[2].message = "hint one"
    /\ IsNone(result.some.ok.composition_output.federation_version)
    /\ ~HasKey(envelope.some.data, "federation_version")
    /\ envelope.some.data.hints.arr[1] = [message |-> JStr("hint two")]

\* get_stdout has returned Ok from the human rendering of a delete.
SubgraphDeleteRendered ==
    /\ HumanOutput
    /\ result.some.ok.variant = "SubgraphDeleteResponse"
    /\ IsSome(returned)
    /\ IsOk(returned.some)

\* C21: in the human rendering of a SubgraphDeleteResponse that is not a dry
\* run, every "was not updated. See errors below." warning on stderr is
\* followed by the build-errors header and the build-error listing of the
\* same get_stdout call.
C21_SeeErrorsBelowIsFollowedByErrors ==
    (SubgraphDeleteRendered /\ ~result.some.ok.dry_run) =>
        \A i \in 1..Len(stderr) :
            stderr[i].line = "supergraph_not_updated_see_errors_below" =>
                /\ i + 2 <= Len(stderr)
                /\ stderr[i + 1].line = "delete_build_errors_header"
                /\ stderr[i + 2].line = "build_errors"

\* The delete that was not composed although it reports no build errors.
C21_Witness ==
    /\ SubgraphDeleteRendered
    /\ ~result.some.ok.dry_run
    /\ ~result.some.ok.delete_response.supergraph_was_updated
    /\ Len(result.some.ok.delete_response.build_errors) = 0
    /\ pc = "done"
    /\ Len(stderr) = 1
    /\ stderr[1].line = "supergraph_not_updated_see_errors_below"

\* The invocation has a SubgraphDeleteResponse in hand.
SubgraphDeleteOutput ==
    IsSome(result) /\ IsOk(result.some) /\ result.some.ok.variant = "SubgraphDeleteResponse"
\* The delete output that differs from the one in hand in dry_run only.
OtherDryRun == [result.some.ok EXCEPT !.dry_run = ~result.some.ok.dry_run]

\* C22: a SubgraphDeleteResponse and the one that differs from it only in
\* dry_run have the same machine data, the same machine error object and
\* the same envelope; the human rendering of a dry run never writes the
\* "subgraph was removed" line, and when get_stdout returns Ok its last
\* line on stderr is one of the two "This is only a prediction" lines.
C22_DryRunOnlyInNarration ==
    SubgraphDeleteOutput =>
        LET v == result.some.ok
        IN  /\ get_internal_data_json(v) = get_internal_data_json(OtherDryRun)
            /\ get_internal_error_json(v) = get_internal_error_json(OtherDryRun)
            /\ IsSome(envelope) => envelope.some = JsonOutputFromOutput(OtherDryRun)
            /\ (~json /\ v.dry_run) =>
                  /\ \A i \in 1..Len(stderr) : stderr[i].line # "subgraph_removed"
                  /\ (IsSome(returned) /\ IsOk(returned.some)) =>
                        /\ Len(stderr) > 0
                        /\ stderr[Len(stderr)].line \in
                              {"prediction_errors_could_change",
                               "prediction_there_could_be_errors"}
                        /\ get_stdout_writes(v) # get_stdout_writes(OtherDryRun)

C22_Witness ==
    /\ SubgraphDeleteOutput
    /\ ~json
    /\ result.some.ok.dry_run
    /\ result.some.ok.delete_response.supergraph_was_updated
    /\ Len(result.some.ok.delete_response.build_errors) = 1
    /\ pc = "done"
    /\ Len(stderr) = 3
    /\ stderr[3].line = "prediction_errors_could_change"
    /\ get_internal_error_json(result.some.ok) # JNull

\* rover template list has run; what the templates server answered.
TemplateListRan == command = "template list" /\ IsSome(result)
TemplatesResponse == steps[1].answer
NoTemplatesMatched == Err(AnyhowErr("No templates matched the provided filters"))

\* C23: when the server returns zero templates, list_templates and
\* get_templates_for_language return the unclassified error "No templates
\* matched the provided filters" and List::run returns it; when it returns
\* templates, both return its list as it is and List::run returns a
\* TemplateList of that list; a TemplateList always has at least one
\* template.
C23_NoEmptyTemplateList ==
    /\ TemplateListRan =>
          LET response == TemplatesResponse
          IN  /\ IsErr(response) => result.some = response
              /\ (IsOk(response) /\ Len(response.ok.templates) = 0) =>
                    /\ list_templates(response) = NoTemplatesMatched
                    /\ get_templates_for_language(response) = NoTemplatesMatched
                    /\ result.some = NoTemplatesMatched
                    /\ result.some.err.kind = "Unclassified"
              /\ (IsOk(response) /\ Len(response.ok.templates) > 0) =>
                    /\ list_templates(response) = Ok(response.ok.templates)
                    /\ get_templates_for_language(response) = Ok(response.ok.templates)
                    /\ result.some =
                          Ok([variant |-> "TemplateList", templates |-> response.ok.templates])
    /\ (IsSome(result) /\ IsOk(result.some) /\ result.some.ok.variant = "TemplateList") =>
          /\ command = "template list"
          /\ Len(result.some.ok.templates) >= 1

C23_Witness ==
    /\ TemplateListRan
    /\ IsOk(TemplatesResponse)
    /\ Len(TemplatesResponse.ok.templates) = 0
    /\ IsErr(result.some)
    /\ pc = "done"
    /\ exit_code = Some(1)

\* get_stdout has returned an io::Error from a human rendering.
GetStdoutFailed == HumanOutput /\ IsSome(returned) /\ IsErr(returned.some)

\* C24: when get_stdout returns the error of a failed write to stderr, it
\* returns no body, nothing reaches stdout, and of its status lines only
\* those issued before the failed write are on stderr; an output without
\* status lines never fails.
C24_WriteFailureStopsGetStdout ==
    /\ GetStdoutFailed =>
          LET v == result.some.ok
              writes == get_stdout_writes(v)
          IN  /\ returned.some = Err("io::Error")
              /\ body = None
              /\ stdout = << >>
              /\ pc = "io_failed"
              /\ Len(writes) > 0
              /\ \E failed_write \in 1..Len(writes) :
                    \E described \in {print_descriptor(v, stdout_is_tty),
                                      print_one_line_descriptor(v, stdout_is_tty)} :
                        stderr = CommandNarration \o described
                                   \o SubSeq(writes, 1, failed_write - 1)
    /\ (HumanOutput /\ IsSome(returned) /\ Len(get_stdout_writes(result.some.ok)) = 0) =>
          IsOk(returned.some)

C24_Witness ==
    /\ GetStdoutFailed
    /\ ~stdout_is_tty
    /\ result.some.ok.variant = "SubgraphPublishResponse"
    /\ Len(get_stdout_writes(result.some.ok)) = 5
    /\ Len(stderr) = 2
    /\ stderr[2].line = "supergraph_not_updated"
    /\ pc = "io_failed"
    /\ stdout = << >>

\* rover subgraph list has run.
SubgraphListRan == command = "subgraph list" /\ IsSome(result)
\* The narration line of the command is on stderr.
ListingLineWritten == \E i \in 1..Len(stderr) : stderr[i].line = "listing_subgraphs"

\* C25: SubgraphListSubcommand::run authenticates first; when that fails it
\* returns the error and has neither written the narration line nor run the
\* query; otherwise it writes the narration line, then runs the query, and
\* returns the query's error, or Ok(SubgraphList) with the query's response
\* as it is when the query succeeds; it returns Ok only when both succeed.
C25_SubgraphListStepOrder ==
    SubgraphListRan =>
        /\ Len(steps) >= 1
        /\ steps[1].step = "get_authenticated_client"
        /\ IsErr(steps[1].answer) =>
              /\ Len(steps) = 1
              /\ result.some = steps[1].answer
              /\ ~ListingLineWritten
        /\ IsOk(steps[1].answer) =>
              /\ Len(steps) = 3
              /\ steps[2].step = "eprintln"
              /\ steps[3].step = "list::run"
              /\ stderr[1] = [line |-> "listing_subgraphs"]
              /\ \A i \in 2..Len(stderr) : stderr[i].line # "listing_subgraphs"
              /\ IsErr(steps[3].answer) => result.some = steps[3].answer
              /\ IsOk(steps[3].answer) =>
                    result.some = Ok([variant |-> "SubgraphList",
                                      details |-> steps[3].answer.ok])
        /\ IsOk(result.some) <=>
              (Len(steps) = 3 /\ IsOk(steps[1].answer) /\ IsOk(steps[3].answer))
        /\ IsOk(result.some) # IsErr(result.some)

C25_Witness ==
    /\ SubgraphListRan
    /\ ~json
    /\ pc = "done"
    /\ Len(steps) = 3
    /\ IsErr(steps[3].answer)
    /\ result.some = steps[3].answer
    /\ Len(stderr) = 2
    /\ stderr[1].line = "listing_subgraphs"
    /\ stderr[2].line = "error"

\* The data field that carries the body of a variant.
BodyField ==
    [GraphPublishResponse |-> "api_schema_hash", SupergraphSchema |-> "core_schema",
     CompositionResult |-> "core_schema", Introspection |-> "introspection_response",
     ReadmeFetchResponse |-> "readme"]
\* The invocation has an output of one of these variants in hand.
BodyIsDataField ==
    IsSome(result) /\ IsOk(result.some) /\ result.some.ok.variant \in DOMAIN BodyField

\* C26: for GraphPublishResponse, SupergraphSchema, CompositionResult,
\* Introspection and ReadmeFetchResponse, the body get_stdout returns is the
\* string that the machine data carries in api_schema_hash, core_schema,
\* core_schema, introspection_response and readme; what a human rendering
\* puts on stdout is what the envelope of the same output has there.
C26_BodyEqualsDataField ==
    BodyIsDataField =>
        LET v == result.some.ok
            field == BodyField[v.variant]
            data == get_internal_data_json(v)
            the_body == get_stdout_body(v)
        IN  /\ IsSome(the_body)
            /\ DOMAIN the_body.some = {"text"}
            /\ field \in DOMAIN data
            /\ DOMAIN data[field] = {"str"}
            /\ the_body.some.text = data[field].str
            /\ IsSome(envelope) => envelope.some.data[field] = JStr(the_body.some.text)
            /\ (~json /\ pc = "done") =>
                  stdout = << Text(JsonOutputFromOutput(v).data[field].str) >>

C26_Witness ==
    /\ BodyIsDataField
    /\ EnvelopeOfOutput
    /\ result.some.ok.variant = "ReadmeFetchResponse"
    /\ envelope.some.data.readme = JStr("readme content")
    /\ get_stdout_body(result.some.ok) = Some(Text("readme content"))

====
